---- MODULE Spec2Model ----
(***************************************************************************)
(* The MySkoda integration: the config flow of config_flow.py (user step   *)
(* and reauth steps) and the sensor entities of sensor.py (value, icon,    *)
(* availability, platform setup).                                          *)
(*                                                                         *)
(* Three specifications share the module:                                  *)
(*   Spec          the config flow and the host's config entries           *)
(*   SensorSpec    the sensors' native_value and icon over snapshots       *)
(*   PlatformSpec  platform setup and availability over capability sets    *)
(***************************************************************************)
EXTENDS Integers, Sequences, FiniteSets, TLC

VARIABLES
    entries,          \* the host's config entries of this domain; entry_id = index
    hostAttrs,        \* attributes the host's base flow class gives a handler
    flowSource,       \* "none", or the source of the flow in progress
    contextEntryId,   \* self.context["entry_id"] of the flow (0: none)
    selfReauthEntry,  \* self._reauth_entry: <<>> (None) or <<entry_id>>
    selfData,         \* self._data[CONF_PASSWORD]: <<>> (unset) or <<password>>
    result,           \* what the last step call of the flow produced
    submitted,        \* the last step call's user_input and the backend's answer
    capabilities,     \* the vehicle's capability set
    entities,         \* <<>> before platform setup, then <<list of registered kinds>>
    vehicle,          \* the coordinator's current snapshot of the vehicle
    reading           \* the property the host read last and what the read produced

flowVars == <<entries, hostAttrs, flowSource, contextEntryId, selfReauthEntry,
              selfData, result, submitted>>
sensorVars == <<capabilities, entities, vehicle, reading>>
vars == <<entries, hostAttrs, flowSource, contextEntryId, selfReauthEntry,
          selfData, result, submitted, capabilities, entities, vehicle, reading>>

\* Optional values: None is the empty tuple, a present value x is <<x>>.
None == <<>>
Some(x) == <<x>>
Opt(S) == {None} \cup {Some(x) : x \in S}

---------------------------------------------------------------------------
(* Bounds *)

MaxEntries == 2

Emails == {"a@example.org", "b@example.org"}
Passwords == {"pw1", "pw2"}

---------------------------------------------------------------------------
(* config_flow.py *)

\* STEP_USER_DATA_SCHEMA: both keys are required strings.
UserInputs == [email : Emails, password : Passwords]

NoInput == [email |-> "", password |-> ""]

\* What hub.connect does with the submitted credentials.
ConnectOutcomes == {"ok", "authorization_failed", "connection_failed", "other_error"}

\* Names the reauth handlers read on self although no line of the class
\* assigns them (__init__ sets only _reauth_entry).  Reading one raises
\* AttributeError unless the host's base class supplies it, and the base
\* class is not part of the source: hostAttrs ranges over what it may supply.
UnassignedAttrs == {"_data", "reauth_entry"}

\* validate_input: builds the hub and awaits hub.connect; nothing is caught or
\* translated, so what connect raises is what validate_input raises
\* ("" when it returns).
validate_input(outcome) ==
    CASE outcome = "ok" -> ""
      [] outcome = "authorization_failed" -> "AuthorizationFailedError"
      [] outcome = "connection_failed" -> "ClientError"
      [] OTHER -> "Exception"

\* The except chain shared by both steps: the first matching clause wins.
ErrorCode(exc) ==
    IF exc = "CannotConnect" THEN "cannot_connect"
    ELSE IF exc = "AuthorizationFailedError" THEN "invalid_auth"
    ELSE "unknown"

\* A step's result. type: "form", "create_entry", "abort", "none" (the
\* coroutine returned None) or "raise" (exc names the exception).
Result(type, step_id, errors, exc, title, data) ==
    [type |-> type, step_id |-> step_id, errors |-> errors, exc |-> exc,
     title |-> title, data |-> data]

NoResult == Result("", "", None, "", "", NoInput)

\* The record of a step call: the step, the flow's context entry_id, the
\* user_input, what the backend answers to these credentials, and the
\* host's entries when the call was made.
Call(step, entry_id, user_input, outcome, before) ==
    [step |-> step, entry_id |-> entry_id, input |-> user_input,
     outcome |-> outcome, before |-> before]

NoCall == Call("", 0, None, "ok", <<>>)

\* async_step_user without its broad except clause: an exception that is
\* neither CannotConnect nor AuthorizationFailedError leaves the step.
async_step_user_NoBroadExcept(user_input, outcome) ==
    IF user_input = None
    THEN Result("form", "user", None, "", "", NoInput)
    ELSE LET input == user_input[1]
             exc == validate_input(outcome)
         IN  IF exc \in {"CannotConnect", "AuthorizationFailedError"}
             THEN Result("form", "user", Some(ErrorCode(exc)), "", "", NoInput)
             ELSE IF exc # ""
             THEN Result("raise", "", None, exc, "", NoInput)
             ELSE Result("create_entry", "", None, "", input.email, input)

\* async_step_user(user_input); user_input is None or Some(input).
async_step_user(user_input, outcome) ==
    IF user_input = None
    THEN Result("form", "user", None, "", "", NoInput)
    ELSE LET input == user_input[1]
             exc == validate_input(outcome)
         IN  IF exc # ""
             THEN Result("form", "user", Some(ErrorCode(exc)), "", "", NoInput)
             ELSE Result("create_entry", "", None, "", input.email, input)

\* _async_step_reauth_confirm(user_input) on a handler whose attributes are
\* attrs and whose _reauth_entry is reauth_entry.  update is None or
\* Some(<<entry_id, data>>): the entry async_update_reload_and_abort rewrites.
async_step_reauth_confirm(user_input, outcome, attrs, reauth_entry, context_id) ==
    IF reauth_entry = None
    THEN [res |-> Result("raise", "", None, "AssertionError", "", NoInput),
          password |-> None, update |-> None]
    ELSE IF user_input = None
    THEN IF "_data" \notin attrs
         THEN [res |-> Result("raise", "", None, "AttributeError", "", NoInput),
               password |-> None, update |-> None]
         ELSE [res |-> Result("form", "reauth_confirm", None, "", "", NoInput),
               password |-> None, update |-> None]
    ELSE IF "_data" \notin attrs
    THEN [res |-> Result("raise", "", None, "AttributeError", "", NoInput),
          password |-> None, update |-> None]
    ELSE LET input == user_input[1]
             exc == validate_input(outcome)
         IN  IF exc # ""
             THEN \* errors["base"] is set and the function ends: returns None
                  [res |-> Result("none", "", None, "", "", NoInput),
                   password |-> Some(input.password), update |-> None]
             ELSE IF "reauth_entry" \notin attrs
             THEN [res |-> Result("raise", "", None, "AttributeError", "", NoInput),
                   password |-> Some(input.password), update |-> None]
             ELSE [res |-> Result("abort", "", None, "", "", NoInput),
                   password |-> Some(input.password),
                   update |-> Some(<<context_id, input>>)]

\* hass.config_entries.async_get_entry(entry_id)
async_get_entry(entry_id) ==
    IF entry_id \in 1..Len(entries) THEN Some(entry_id) ELSE None

\* ConfigFlow.__init__ and the host starting a user flow: async_step_user(None).
StartUserFlow ==
    /\ flowSource = "none"
    /\ flowSource' = "user"
    /\ contextEntryId' = 0
    /\ selfReauthEntry' = None
    /\ selfData' = None
    /\ result' = async_step_user(None, "ok")
    /\ submitted' = Call("user", 0, None, "ok", entries)
    /\ UNCHANGED <<entries, hostAttrs>>

\* The user submits the form of step "user": async_step_user(user_input).
\* A create_entry result ends the flow and the host stores the entry.
SubmitUser ==
    /\ flowSource = "user"
    /\ result.type = "form"
    /\ \E input \in UserInputs, outcome \in ConnectOutcomes :
         LET res == async_step_user(Some(input), outcome)
         IN  /\ res.type = "create_entry" => Len(entries) < MaxEntries
             /\ result' = res
             /\ submitted' = Call("user", 0, Some(input), outcome, entries)
             /\ IF res.type = "create_entry"
                THEN /\ entries' = Append(entries, res.data)
                     /\ flowSource' = "none"
                ELSE UNCHANGED <<entries, flowSource>>
    /\ UNCHANGED <<hostAttrs, contextEntryId, selfReauthEntry, selfData>>

\* ConfigFlow.__init__ and async_step_reauth(entry_data) for an entry of the
\* host: _reauth_entry is looked up, then _async_step_reauth_confirm() runs
\* with no user input.
StartReauth ==
    /\ flowSource = "none"
    /\ \E entry_id \in 1..Len(entries) :
         LET reauth_entry == async_get_entry(entry_id)
             step == async_step_reauth_confirm(None, "ok", hostAttrs \cup {"_reauth_entry"},
                                               reauth_entry, entry_id)
         IN  /\ flowSource' = "reauth"
             /\ contextEntryId' = entry_id
             /\ selfReauthEntry' = reauth_entry
             /\ selfData' = None
             /\ result' = step.res
             /\ submitted' = Call("reauth", entry_id, None, "ok", entries)
    /\ UNCHANGED <<entries, hostAttrs>>

\* The reauth-confirm step with user input: _async_step_reauth_confirm(user_input).
\* An abort result ends the flow; async_update_reload_and_abort has then
\* rewritten the entry's data.
SubmitReauthConfirm ==
    /\ flowSource = "reauth"
    /\ \E input \in UserInputs, outcome \in ConnectOutcomes :
         LET step == async_step_reauth_confirm(Some(input), outcome,
                                               hostAttrs \cup {"_reauth_entry"},
                                               selfReauthEntry, contextEntryId)
         IN  /\ result' = step.res
             /\ submitted' = Call("reauth_confirm", contextEntryId, Some(input),
                                   outcome, entries)
             /\ selfData' = IF step.password = None THEN selfData ELSE step.password
             /\ IF step.update = None
                THEN UNCHANGED entries
                ELSE entries' = [entries EXCEPT ![step.update[1][1]] = step.update[1][2]]
             /\ flowSource' = IF step.res.type = "abort" THEN "none" ELSE flowSource
    /\ UNCHANGED <<hostAttrs, contextEntryId, selfReauthEntry>>

\* The host drops a flow that is not finished (the dialog is closed, or a step
\* raised).
FlowRemoved ==
    /\ flowSource # "none"
    /\ flowSource' = "none"
    /\ contextEntryId' = 0
    /\ selfReauthEntry' = None
    /\ selfData' = None
    /\ result' = NoResult
    /\ submitted' = NoCall
    /\ UNCHANGED <<entries, hostAttrs>>

FlowInit ==
    /\ entries = <<>>
    /\ hostAttrs \in SUBSET UnassignedAttrs
    /\ flowSource = "none"
    /\ contextEntryId = 0
    /\ selfReauthEntry = None
    /\ selfData = None
    /\ result = NoResult
    /\ submitted = NoCall

---------------------------------------------------------------------------
(* sensor.py *)

CapabilityIds == {"CHARGING", "VEHICLE_HEALTH_INSPECTION", "STATE"}

\* Every sensor class sensor.py defines.
SensorKinds ==
    {"SoftwareVersion", "BatteryPercentage", "ChargingPower", "RemainingDistance",
     "TargetBatteryPercentage", "Mileage", "InspectionInterval", "ChargeType",
     "ChargingState", "RemainingChargingTime", "LastUpdated", "MainRender"}

\* The subclasses of ChargingSensor.
ChargingSensorKinds ==
    {"BatteryPercentage", "ChargingPower", "RemainingDistance",
     "TargetBatteryPercentage", "ChargeType", "ChargingState",
     "RemainingChargingTime"}

\* The snapshot's sub-records; each optional one is None or Some(record).
Percent == 0..100
ChargingStates == {"CONNECT_CABLE", "CHARGING"}
ChargeTypes == {"AC", "DC"}

BatteryRecs ==
    [state_of_charge_in_percent : Opt(Percent),
     remaining_cruising_range_in_meters : {123000}]
StatusRecs ==
    [battery : BatteryRecs, state : Opt(ChargingStates), charge_type : ChargeTypes,
     charge_power_in_kw : {11000},      \* thousandths of a kW
     remaining_time_to_fully_charged_in_minutes : {45}]
ChargingRecs ==
    [status : Opt(StatusRecs),
     settings : {[target_state_of_charge_in_percent |-> 80]}]
HealthRecs == {[mileage_in_km |-> 42000]}
MaintenanceRecs ==
    [maintenance_report : Opt({[inspection_due_in_days |-> 120]})]
VehicleStatusRecs == {[car_captured_timestamp |-> 1700000000]}
InfoRecs == {[software_version |-> "4.0"]}
RenderMaps == Opt({"https://render/main.png"})     \* the "main" entry, if any

Snapshots ==
    [charging : Opt(ChargingRecs), health : Opt(HealthRecs),
     maintenance : Opt(MaintenanceRecs), status : Opt(VehicleStatusRecs),
     info : Opt(InfoRecs), renders : RenderMaps]

NoVehicle ==
    [charging |-> None, health |-> None, maintenance |-> None, status |-> None,
     info |-> None, renders |-> None]

\* What reading a property produces: an int, a float (n in thousandths), a
\* str, a bool (n is 1 or 0), no value (Python's None) or a raised exception
\* (s names it).
IntVal(n) == [tag |-> "int", n |-> n, s |-> ""]
FloatVal(thousandths) == [tag |-> "float", n |-> thousandths, s |-> ""]
StrVal(s) == [tag |-> "str", n |-> 0, s |-> s]
BoolVal(b) == [tag |-> "bool", n |-> IF b THEN 1 ELSE 0, s |-> ""]
NoValue == [tag |-> "none", n |-> 0, s |-> ""]
Raise(exc) == [tag |-> "raise", n |-> 0, s |-> exc]

OptInt(o) == IF o = None THEN NoValue ELSE IntVal(o[1])

\* str.lower() on the enumeration names the snapshot holds.
Lower(s) ==
    CASE s = "AC" -> "ac"
      [] s = "DC" -> "dc"
      [] s = "CONNECT_CABLE" -> "connect_cable"
      [] s = "CHARGING" -> "charging"
      [] OTHER -> s

\* MySkodaEntity.required_capabilities (entity.py): none by default.
BaseRequiredCapabilities == <<>>

\* MySkodaEntity's availability (entity.py): every required capability is in
\* the vehicle's capability set.
EntityAvailable(required, caps) ==
    \A i \in 1..Len(required) : required[i] \in caps

\* MySkodaEntity.get_renders().get("main") (entity.py): the entry, or None.
get_renders_main(v) ==
    IF v.renders = None THEN NoValue ELSE StrVal(v.renders[1])

\* ChargingSensor._charging: the charging record, or None.
Charging(v) == v.charging

\* ChargingSensor._status: the charging status, or None when either link is
\* absent.
Status(v) ==
    IF Charging(v) = None THEN None ELSE Charging(v)[1].status

\* required_capabilities: ChargingSensor, Mileage, InspectionInterval and
\* LastUpdated override it.
required_capabilities(kind) ==
    IF kind \in ChargingSensorKinds THEN <<"CHARGING">>
    ELSE IF kind \in {"Mileage", "InspectionInterval"} THEN <<"VEHICLE_HEALTH_INSPECTION">>
    ELSE IF kind = "LastUpdated" THEN <<"STATE">>
    ELSE BaseRequiredCapabilities

\* The threshold chain of BatteryPercentage.icon with its first test made
\* strict.
BatterySuffixStrictFirst(p) ==
    IF p > 95 THEN "100"
    ELSE IF p >= 85 THEN "90"
    ELSE IF p >= 75 THEN "80"
    ELSE IF p >= 65 THEN "70"
    ELSE IF p >= 55 THEN "60"
    ELSE IF p >= 45 THEN "50"
    ELSE IF p >= 35 THEN "40"
    ELSE IF p >= 25 THEN "30"
    ELSE IF p >= 15 THEN "20"
    ELSE IF p >= 5 THEN "10"
    ELSE "outline"

\* BatteryPercentage.icon: the threshold chain that picks the suffix.
BatterySuffix(p) ==
    IF p >= 95 THEN "100"
    ELSE IF p >= 85 THEN "90"
    ELSE IF p >= 75 THEN "80"
    ELSE IF p >= 65 THEN "70"
    ELSE IF p >= 55 THEN "60"
    ELSE IF p >= 45 THEN "50"
    ELSE IF p >= 35 THEN "40"
    ELSE IF p >= 25 THEN "30"
    ELSE IF p >= 15 THEN "20"
    ELSE IF p >= 5 THEN "10"
    ELSE "outline"

\* BatteryPercentage.icon
BatteryPercentageIcon(v) ==
    IF Status(v) = None THEN StrVal("mdi:battery-outline")
    ELSE LET status == Status(v)[1]
             soc == status.battery.state_of_charge_in_percent
         IN  IF soc = None THEN Raise("TypeError")      \* None >= 95
             ELSE LET suffix == BatterySuffix(soc[1])
                  IN  IF status.state # Some("CONNECT_CABLE")
                      THEN StrVal("mdi:battery-charging-" \o suffix)
                      ELSE IF suffix = "100" THEN StrVal("mdi:battery")
                      ELSE StrVal("mdi:battery-" \o suffix)

\* ChargeType.icon
ChargeTypeIcon(v) ==
    IF Status(v) # None /\ Status(v)[1].charge_type = "DC"
    THEN StrVal("mdi:ev-plug-ccs2")
    ELSE StrVal("mdi:ev-plug-type2")

\* ChargingState.icon
ChargingStateIcon(v) ==
    IF Status(v) # None /\ Status(v)[1].state = Some("CONNECT_CABLE")
    THEN StrVal("mdi:power-plug-off")
    ELSE IF Status(v) # None /\ Status(v)[1].state = Some("CHARGING")
    THEN StrVal("mdi:power-plug-battery")
    ELSE StrVal("mdi:power-plug")

\* The icon property: the three overrides, else entity_description.icon.
Icon(kind, v) ==
    CASE kind = "BatteryPercentage" -> BatteryPercentageIcon(v)
      [] kind = "ChargeType" -> ChargeTypeIcon(v)
      [] kind = "ChargingState" -> ChargingStateIcon(v)
      [] kind = "SoftwareVersion" -> StrVal("mdi:update")
      [] kind = "ChargingPower" -> StrVal("mdi:lightning-bolt")
      [] kind = "RemainingDistance" -> StrVal("mdi:speedometer")
      [] kind = "TargetBatteryPercentage" -> StrVal("mdi:percent")
      [] kind = "Mileage" -> StrVal("mdi:counter")
      [] kind = "InspectionInterval" -> StrVal("mdi:car-wrench")
      [] kind = "RemainingChargingTime" -> StrVal("mdi:timer")
      [] kind = "LastUpdated" -> StrVal("mdi:clock")
      [] OTHER -> StrVal("mdi:file-image")

\* The native_value property of each sensor class.
NativeValue(kind, v) ==
    CASE kind = "SoftwareVersion" ->
           IF v.info = None THEN Raise("AttributeError")
           ELSE StrVal(v.info[1].software_version)
      [] kind = "BatteryPercentage" ->
           IF Status(v) = None THEN NoValue
           ELSE OptInt(Status(v)[1].battery.state_of_charge_in_percent)
      [] kind = "ChargingPower" ->
           IF Status(v) = None THEN NoValue
           ELSE FloatVal(Status(v)[1].charge_power_in_kw)
      [] kind = "RemainingDistance" ->
           IF Status(v) = None THEN NoValue
           \* meters / 1000: the same digits read as thousandths of a km
           ELSE FloatVal(Status(v)[1].battery.remaining_cruising_range_in_meters)
      [] kind = "TargetBatteryPercentage" ->
           IF Charging(v) = None THEN NoValue
           ELSE IntVal(Charging(v)[1].settings.target_state_of_charge_in_percent)
      [] kind = "Mileage" ->
           IF v.health = None THEN NoValue
           ELSE IntVal(v.health[1].mileage_in_km)
      [] kind = "InspectionInterval" ->
           IF v.maintenance = None THEN Raise("AttributeError")
           ELSE IF v.maintenance[1].maintenance_report = None THEN NoValue
           ELSE IntVal(v.maintenance[1].maintenance_report[1].inspection_due_in_days)
      [] kind = "ChargeType" ->
           IF Status(v) = None THEN NoValue
           ELSE StrVal(Lower(Status(v)[1].charge_type))
      [] kind = "ChargingState" ->
           IF Status(v) = None \/ Status(v)[1].state = None THEN NoValue
           ELSE StrVal(Lower(Status(v)[1].state[1]))
      [] kind = "RemainingChargingTime" ->
           IF Status(v) = None THEN NoValue
           ELSE IntVal(Status(v)[1].remaining_time_to_fully_charged_in_minutes)
      [] kind = "LastUpdated" ->
           IF v.status = None THEN NoValue
           ELSE IntVal(v.status[1].car_captured_timestamp)
      [] OTHER -> get_renders_main(v)

\* The available property: BatteryPercentage overrides it, the other classes
\* inherit the entity's.
Available(kind, caps) ==
    IF kind = "BatteryPercentage" THEN BoolVal(TRUE)
    ELSE BoolVal(EntityAvailable(required_capabilities(kind), caps))

\* The list async_setup_entry hands to add_supported_entities.
available_entities ==
    <<"BatteryPercentage", "ChargeType", "ChargingPower", "ChargingState",
      "LastUpdated", "MainRender", "Mileage", "RemainingChargingTime",
      "RemainingDistance", "SoftwareVersion", "TargetBatteryPercentage">>

\* utils.add_supported_entities: one entity per listed kind whose required
\* capabilities the vehicle has, in list order.
RECURSIVE add_supported_entities(_, _)
add_supported_entities(kinds, caps) ==
    IF kinds = <<>> THEN <<>>
    ELSE LET rest == add_supported_entities(Tail(kinds), caps)
         IN  IF EntityAvailable(required_capabilities(Head(kinds)), caps)
             THEN <<Head(kinds)>> \o rest
             ELSE rest

\* async_setup_entry: registers what add_supported_entities keeps of the list.
SetupEntry ==
    /\ entities = None
    /\ entities' = Some(add_supported_entities(available_entities, capabilities))
    /\ UNCHANGED <<capabilities, vehicle, reading>>

\* The host reads a sensor's available property.
ReadAvailable ==
    /\ reading = None
    /\ \E kind \in SensorKinds :
         reading' = Some([kind |-> kind, prop |-> "available",
                          value |-> Available(kind, capabilities)])
    /\ UNCHANGED <<capabilities, entities, vehicle>>

\* The host reads a sensor's native_value property.
ReadNativeValue ==
    /\ reading = None
    /\ \E kind \in SensorKinds :
         reading' = Some([kind |-> kind, prop |-> "native_value",
                          value |-> NativeValue(kind, vehicle)])
    /\ UNCHANGED <<capabilities, entities, vehicle>>

\* The host reads a sensor's icon property.
ReadIcon ==
    /\ reading = None
    /\ \E kind \in SensorKinds :
         reading' = Some([kind |-> kind, prop |-> "icon",
                          value |-> Icon(kind, vehicle)])
    /\ UNCHANGED <<capabilities, entities, vehicle>>

SensorIdle ==
    /\ capabilities = {}
    /\ entities = None
    /\ vehicle = NoVehicle
    /\ reading = None

Init == FlowInit /\ SensorIdle

Next ==
    \/ StartUserFlow /\ UNCHANGED sensorVars
    \/ SubmitUser /\ UNCHANGED sensorVars
    \/ StartReauth /\ UNCHANGED sensorVars
    \/ SubmitReauthConfirm /\ UNCHANGED sensorVars
    \/ FlowRemoved /\ UNCHANGED sensorVars

Spec == Init /\ [][Next]_vars

FlowIdle ==
    /\ entries = <<>>
    /\ hostAttrs = {}
    /\ flowSource = "none"
    /\ contextEntryId = 0
    /\ selfReauthEntry = None
    /\ selfData = None
    /\ result = NoResult
    /\ submitted = NoCall

\* One read of one property of one sensor over one snapshot.
SensorInit ==
    /\ FlowIdle
    /\ capabilities = CapabilityIds
    /\ entities = None
    /\ vehicle \in Snapshots
    /\ reading = None

SensorNext ==
    \/ ReadNativeValue /\ UNCHANGED flowVars
    \/ ReadIcon /\ UNCHANGED flowVars

SensorSpec == SensorInit /\ [][SensorNext]_vars

\* Platform setup and availability for one vehicle's capability set.
PlatformInit ==
    /\ FlowIdle
    /\ capabilities \in SUBSET CapabilityIds
    /\ entities = None
    /\ vehicle = NoVehicle
    /\ reading = None

PlatformNext ==
    \/ SetupEntry /\ UNCHANGED flowVars
    \/ ReadAvailable /\ UNCHANGED flowVars

PlatformSpec == PlatformInit /\ [][PlatformNext]_vars

---------------------------------------------------------------------------
(* Claims about the config flow, checked under Spec *)

\* The error code the claims expect for each way connect can fail.
ExpectedCode(outcome) ==
    CASE outcome = "authorization_failed" -> "invalid_auth"
      [] outcome = "connection_failed" -> "cannot_connect"
      [] OTHER -> "unknown"

UserSubmitted == submitted.step = "user" /\ submitted.input # None
ReauthSubmitted == submitted.step = "reauth_confirm" /\ submitted.input # None

\* C2: after the reauth-confirm step is given credentials the backend
\* accepts, the step has aborted the flow, the entry named by the context's
\* entry_id holds the submitted data, every other entry is as before and the
\* number of entries is unchanged.
C2_ReauthSuccessUpdatesInPlace ==
    (ReauthSubmitted /\ submitted.outcome = "ok")
        => /\ result.type = "abort"
           /\ flowSource = "none"
           /\ Len(entries) = Len(submitted.before)
           /\ entries = [submitted.before EXCEPT ![submitted.entry_id] = submitted.input[1]]

\* C3: after the reauth-confirm step is given credentials whose validation
\* fails, the entries are as before and the step has returned the
\* reauth_confirm form with the error code of the failure.
C3_ReauthFailureShowsFormWithError ==
    (ReauthSubmitted /\ submitted.outcome # "ok")
        => /\ entries = submitted.before
           /\ result.type = "form"
           /\ result.step_id = "reauth_confirm"
           /\ result.errors = Some(ExpectedCode(submitted.outcome))

\* C4: when the backend answers the submitted credentials with an
\* authorization error, the step's outcome is the invalid_auth error code, in
\* the user step and in the reauth-confirm step.
C4_AuthorizationErrorIsInvalidAuth ==
    ((UserSubmitted \/ ReauthSubmitted) /\ submitted.outcome = "authorization_failed")
        => result.errors = Some("invalid_auth")

\* C5: when connect fails with a connection failure that is no authorization
\* error, the user step reports cannot_connect, not unknown.
C5_ConnectionFailureIsCannotConnect ==
    (UserSubmitted /\ submitted.outcome = "connection_failed")
        => /\ result.errors = Some("cannot_connect")
           /\ result.errors # Some("unknown")

\* C9: in the user step with submitted input, an entry titled with the
\* submitted email and holding the submitted data is created exactly when
\* validation raised nothing; otherwise the entries are as before and the
\* user form is shown again with one error code; the step never raises.
C9_UserStepCreatesEntryIffValid ==
    UserSubmitted
        => LET input == submitted.input[1]
               created == /\ result.type = "create_entry"
                          /\ result.title = input.email
                          /\ result.data = input
                          /\ entries = Append(submitted.before, input)
           IN  /\ created <=> submitted.outcome = "ok"
               /\ ~created =>
                    /\ entries = submitted.before
                    /\ result.type = "form"
                    /\ result.step_id = "user"
                    /\ result.errors \in
                         {Some(c) : c \in {"cannot_connect", "invalid_auth", "unknown"}}
               /\ result.type # "raise"

\* C9's case: a submission whose validation failed, after one that created an
\* entry.
C9_Witness ==
    /\ UserSubmitted
    /\ submitted.outcome = "other_error"
    /\ result.type = "form"
    /\ Len(entries) = 1

---------------------------------------------------------------------------
(* Claims about the sensors' values and icons, checked under SensorSpec *)

Read(kind, prop) ==
    reading # None /\ reading[1].kind = kind /\ reading[1].prop = prop

\* charging.status.battery.state_of_charge_in_percent is absent from the
\* snapshot: a link of the chain, or the field itself.
SocAbsent ==
    \/ vehicle.charging = None
    \/ vehicle.charging[1].status = None
    \/ vehicle.charging[1].status[1].battery.state_of_charge_in_percent = None

\* C6: reading native_value never raises, whichever sub-records the snapshot
\* lacks.
C6_NativeValueNeverRaises ==
    (reading # None /\ reading[1].prop = "native_value")
        => reading[1].value.tag # "raise"

\* C7: when the state of charge is absent, BatteryPercentage.native_value is
\* no-value and BatteryPercentage.icon is mdi:battery-outline.
C7_BatteryAbsentGivesOutline ==
    SocAbsent
        => /\ Read("BatteryPercentage", "native_value") => reading[1].value = NoValue
           /\ Read("BatteryPercentage", "icon")
                => reading[1].value = StrVal("mdi:battery-outline")

\* The bucket of a state of charge, by rounding to the nearest ten (halves
\* up); below 5 it is "outline".
BucketName(p) ==
    LET tens == (p + 5) \div 10
    IN  IF tens = 0 THEN "outline"
        ELSE <<"10", "20", "30", "40", "50", "60", "70", "80", "90", "100">>[tens]

\* C8: with a charging status and a state of charge p in 0..100, the icon is
\* mdi:battery-charging-<bucket> unless the state is CONNECT_CABLE, and then
\* mdi:battery-<bucket>, or mdi:battery for bucket "100"; 95 is in bucket
\* "100", 94 in "90", 4 in "outline".
C8_BatteryIconBuckets ==
    (Read("BatteryPercentage", "icon") /\ ~SocAbsent)
        => LET status == vehicle.charging[1].status[1]
               p == status.battery.state_of_charge_in_percent[1]
               b == BucketName(p)
               cable == status.state = Some("CONNECT_CABLE")
           IN  /\ p \in 0..100
               /\ p = 95 => b = "100"
               /\ p = 94 => b = "90"
               /\ p = 4 => b = "outline"
               /\ reading[1].value =
                    StrVal(IF ~cable THEN "mdi:battery-charging-" \o b
                           ELSE IF b = "100" THEN "mdi:battery"
                           ELSE "mdi:battery-" \o b)

\* C8's case: the icon read at the boundary 95 with the cable state.
C8_Witness ==
    /\ Read("BatteryPercentage", "icon")
    /\ ~SocAbsent
    /\ vehicle.charging[1].status[1].battery.state_of_charge_in_percent = Some(95)
    /\ vehicle.charging[1].status[1].state = Some("CONNECT_CABLE")
    /\ reading[1].value = StrVal("mdi:battery")

---------------------------------------------------------------------------
(* Claims about platform setup and availability, checked under PlatformSpec *)

\* C1: for a vehicle without the CHARGING capability, every sensor derived
\* from ChargingSensor reports available = false.
C1_ChargingSensorsUnavailable ==
    (reading # None /\ reading[1].prop = "available"
       /\ reading[1].kind \in ChargingSensorKinds /\ "CHARGING" \notin capabilities)
        => reading[1].value = BoolVal(FALSE)

Count(kind, list) == Cardinality({i \in 1..Len(list) : list[i] = kind})

\* C10: after platform setup, every sensor kind of the integration whose
\* required capabilities the vehicle has is registered exactly once; with
\* VEHICLE_HEALTH_INSPECTION, InspectionInterval is registered as Mileage is.
C10_EverySupportedKindRegisteredOnce ==
    entities # None
        => /\ \A kind \in SensorKinds :
                (\A i \in 1..Len(required_capabilities(kind)) :
                    required_capabilities(kind)[i] \in capabilities)
                  => Count(kind, entities[1]) = 1
           /\ "VEHICLE_HEALTH_INSPECTION" \in capabilities
                => /\ Count("Mileage", entities[1]) = 1
                   /\ Count("InspectionInterval", entities[1]) = 1

====
